---- MODULE Spec2Model ----
(***************************************************************************)
(* Model of src/index.js: extractTokenFromRequest, the RFC 6750 bearer     *)
(* token extractor (header, then body, then query string, then cookie).   *)
(*                                                                         *)
(* JavaScript values are records [t, s]: t is the type tag and s the       *)
(* content of a string, a sequence of atoms.  An atom is one character,    *)
(* except "Bearer" and "access_token", which stand for those substrings;   *)
(* no other atom is a letter of either word, so a substring search for     *)
(* "Bearer " is a search for the atom "Bearer" followed by the atom " ".   *)
(***************************************************************************)
EXTENDS Integers, Sequences, FiniteSets, TLC

VARIABLES request, config, ret, pc

vars == <<request, config, ret, pc>>

\* Longest authorization header value, in atoms.
MaxHeaderLen == 4

---------------------------------------------------------------------------
(* JavaScript values *)

Undefined == [t |-> "undefined", s |-> <<>>]
Null == [t |-> "null", s |-> <<>>]
Str(chars) == [t |-> "string", s |-> chars]

\* ToBoolean: undefined, null and "" are falsy, every other string is truthy.
Truthy(v) == v.t = "string" /\ v.s # <<>>

\* An object the caller passed (or left out): get maps each key to its value,
\* Undefined for a key the object does not have.
Obj(map) == [defined |-> TRUE, get |-> map]
Missing(keys) == [defined |-> FALSE, get |-> [k \in keys |-> Undefined]]

\* What a call produced: a returned value or a thrown error.
Return(v) == [kind |-> "return", value |-> v]
Throw(name) == [kind |-> "throw", value |-> [t |-> name, s |-> <<>>]]
NoResult == [kind |-> "none", value |-> Undefined]

---------------------------------------------------------------------------
(* Constants of src/index.js *)

BEARER_SCHEME == <<"Bearer">>
AUTHORIZATION_HEADER == "Authorization"
COOKIE_HEADER == "Cookie"
ACCESS_TOKEN_PARAMETER == "access_token"

\* The keys the modelled objects may carry.
HeaderKeys == {AUTHORIZATION_HEADER, COOKIE_HEADER, "X-Auth", "X-Cookie"}
ParamKeys == {ACCESS_TOKEN_PARAMETER}
ConfigKeys == {"authorizationHeaderKey", "cookieHeaderKey"}

---------------------------------------------------------------------------
(* String primitives used by extractTokenFromRequest *)

\* String.prototype.indexOf(pat) !== -1
Includes(str, pat) ==
  \E i \in 1..(Len(str) - Len(pat) + 1) : SubSeq(str, i, i + Len(pat) - 1) = pat

\* Position of the first separator atom at or after position from, 0 if none.
IndexOfFrom(str, sep, from) ==
  IF \E i \in from..Len(str) : str[i] = sep
  THEN CHOOSE i \in from..Len(str) :
         str[i] = sep /\ \A j \in from..(i - 1) : str[j] # sep
  ELSE 0

\* String.prototype.split(sep) for a one-character separator.
RECURSIVE Split(_, _)
Split(str, sep) ==
  LET i == IndexOfFrom(str, sep, 1)
  IN IF i = 0 THEN <<str>>
     ELSE <<SubSeq(str, 1, i - 1)>> \o Split(SubSeq(str, i + 1, Len(str)), sep)

\* array[n] with n counted from 0: undefined past the end.
At(arr, n) == IF n + 1 <= Len(arr) THEN Str(arr[n + 1]) ELSE Undefined

---------------------------------------------------------------------------
(* extractTokenFromRequest *)

\* { query, headers, body } = {}: a missing request is the empty object, whose
\* query, headers and body are undefined.
RequestFields(req) ==
  IF req.defined THEN req.get
  ELSE [query |-> Missing(ParamKeys), headers |-> Missing(HeaderKeys),
        body |-> Missing(ParamKeys)]

\* obj ? obj[key] : null
Lookup(obj, key) == IF obj.defined THEN obj.get[key] ELSE Null

\* A destructured option with a default: the default stands in for a missing
\* config argument ({ ... } = {}) and for a key whose value is undefined.
\* A key name is a string of one atom, the name.
Option(cfg, key, default) ==
  IF cfg.defined /\ cfg.get[key] # Undefined THEN cfg.get[key].s[1] ELSE default

\* Variant: the configured key is ignored.
AuthorizationHeaderKeyFixed(cfg) == AUTHORIZATION_HEADER

\* authorizationHeaderKey = AUTHORIZATION_HEADER
AuthorizationHeaderKey(cfg) ==
  Option(cfg, "authorizationHeaderKey", AUTHORIZATION_HEADER)

\* cookieHeaderKey = COOKIE_HEADER
CookieHeaderKey(cfg) == Option(cfg, "cookieHeaderKey", COOKIE_HEADER)

\* authHeader && authHeader.indexOf(`${BEARER_SCHEME} `) !== -1
HeaderMatches(header) ==
  Truthy(header) /\ Includes(header.s, BEARER_SCHEME \o <<" ">>)

\* Variant: everything after the first space: authHeader.slice(indexOf(' ') + 1).
HeaderTokenRemainder(header) ==
  Str(SubSeq(header.s, IndexOfFrom(header.s, " ", 1) + 1, Len(header.s)))

\* Variant: the last field: split(' ').pop().
HeaderTokenLast(header) ==
  At(Split(header.s, " "), Len(Split(header.s, " ")) - 1)

\* authHeader.split(' ')[1]
HeaderToken(header) == At(Split(header.s, " "), 1)

\* const authHeader = headers ? headers[authorizationHeaderKey] : null
authHeader(req, cfg) ==
  Lookup(RequestFields(req)["headers"], AuthorizationHeaderKey(cfg))

\* const cookieHeader = headers ? headers[cookieHeaderKey] : null
cookieHeader(req, cfg) ==
  Lookup(RequestFields(req)["headers"], CookieHeaderKey(cfg))

\* let fromQuery = query ? query[ACCESS_TOKEN_PARAMETER] : null
fromQuery(req) == Lookup(RequestFields(req)["query"], ACCESS_TOKEN_PARAMETER)

\* let fromBody = body ? body[ACCESS_TOKEN_PARAMETER] : null
fromBody(req) == Lookup(RequestFields(req)["body"], ACCESS_TOKEN_PARAMETER)

---------------------------------------------------------------------------
(* The cookie-string parser the cookie branch names *)

\* A string without its leading and trailing spaces.
RECURSIVE Trim(_)
Trim(str) ==
  IF str # <<>> /\ Head(str) = " " THEN Trim(Tail(str))
  ELSE IF str # <<>> /\ str[Len(str)] = " " THEN Trim(SubSeq(str, 1, Len(str) - 1))
  ELSE str

\* The value of the first name=value pair with the given name, else undefined.
RECURSIVE CookieGet(_, _)
CookieGet(pairs, name) ==
  IF pairs = <<>> THEN Undefined
  ELSE LET pair == Head(pairs)
           eq == IndexOfFrom(pair, "=", 1)
       IN IF eq # 0 /\ Trim(SubSeq(pair, 1, eq - 1)) = name
          THEN Str(Trim(SubSeq(pair, eq + 1, Len(pair))))
          ELSE CookieGet(Tail(pairs), name)

\* parse(cookieHeaderString) -> mapping: pairs are separated by ";", a pair is
\* split at its first "=", names and values are trimmed, the first pair of a
\* name wins.
parse(str) == [name \in ParamKeys |-> CookieGet(Split(str, ";"), <<name>>)]

\* Whether the identifier cookie is bound where extractTokenFromRequest runs:
\* the file neither declares nor imports it.
cookieIsDeclared == FALSE

\* The cookie branch: cookies = cookie.parse(cookieHeader), then
\* if (fromCookie) return fromCookie, and no return statement otherwise.
\* Evaluating the undeclared identifier cookie throws a ReferenceError.
CookieBranch(header) ==
  IF ~cookieIsDeclared THEN Throw("ReferenceError")
  ELSE LET cookies == parse(header.s)
           fromCookie == cookies[ACCESS_TOKEN_PARAMETER]
       IN IF Truthy(fromCookie) THEN Return(fromCookie) ELSE Return(Undefined)

---------------------------------------------------------------------------
(* Variants of extractTokenFromRequest, each one plausible slip *)

\* The body is consulted before the authorization header.
extractBodyFirst(req, cfg) ==
  IF Truthy(fromBody(req)) THEN Return(fromBody(req))
  ELSE IF HeaderMatches(authHeader(req, cfg))
  THEN Return(HeaderToken(authHeader(req, cfg)))
  ELSE IF Truthy(fromQuery(req)) THEN Return(fromQuery(req))
  ELSE IF Truthy(cookieHeader(req, cfg)) THEN CookieBranch(cookieHeader(req, cfg))
  ELSE Return(Null)

\* The query string is consulted before the body, the order of the doc comment.
extractQueryFirst(req, cfg) ==
  IF HeaderMatches(authHeader(req, cfg))
  THEN Return(HeaderToken(authHeader(req, cfg)))
  ELSE IF Truthy(fromQuery(req)) THEN Return(fromQuery(req))
  ELSE IF Truthy(fromBody(req)) THEN Return(fromBody(req))
  ELSE IF Truthy(cookieHeader(req, cfg)) THEN CookieBranch(cookieHeader(req, cfg))
  ELSE Return(Null)

---------------------------------------------------------------------------
(* extractTokenFromRequest *)

extractTokenFromRequest(req, cfg) ==
  IF HeaderMatches(authHeader(req, cfg))
  THEN Return(HeaderToken(authHeader(req, cfg)))
  ELSE IF Truthy(fromBody(req)) THEN Return(fromBody(req))
  ELSE IF Truthy(fromQuery(req)) THEN Return(fromQuery(req))
  ELSE IF Truthy(cookieHeader(req, cfg)) THEN CookieBranch(cookieHeader(req, cfg))
  ELSE Return(Null)

---------------------------------------------------------------------------
(* The calls a caller can make *)

HeaderAlphabet == {"Bearer", " ", "a"}

HeaderStrings == UNION {[1..n -> HeaderAlphabet] : n \in 0..MaxHeaderLen}

\* Longer header values: "Bearer a a" and "a Bearer a".
ExampleHeaders ==
  {<<"Bearer", " ", "a", " ", "a">>, <<"a", " ", "Bearer", " ", "a">>}

\* Values of the header the varied authorization value is stored under.
AuthValues == {Undefined} \cup {Str(h) : h \in HeaderStrings \cup ExampleHeaders}

\* Values of the other authorization-like header.
OtherAuthValues == {Undefined, Str(<<"Bearer", " ", "z">>)}

\* "access_token=d; o=x", a cookie string without access_token, "" and none.
CookieValues ==
  {Undefined, Str(<<>>),
   Str(<<"access_token", "=", "d", ";", " ", "o", "=", "x">>),
   Str(<<"o", "=", "x">>)}

CustomCookieValues == {Undefined, Str(<<"access_token", "=", "e">>)}

\* A headers object holding the value v under key k.
HeadersWith(k, v, w, c, x) ==
  Obj([h \in HeaderKeys |->
         IF h = k THEN v
         ELSE IF h \in {AUTHORIZATION_HEADER, "X-Auth"} THEN w
         ELSE IF h = COOKIE_HEADER THEN c
         ELSE x])

HeaderObjects(authValues) ==
  {Missing(HeaderKeys)} \cup
  {HeadersWith(k, v, w, c, x) :
     k \in {AUTHORIZATION_HEADER, "X-Auth"}, v \in authValues,
     w \in OtherAuthValues, c \in CookieValues, x \in CustomCookieValues}

\* body and query: missing, {}, { access_token: "" }, { access_token: tok }.
ParamObjects(tok) ==
  {Missing(ParamKeys)} \cup
  {Obj([k \in ParamKeys |-> v]) : v \in {Undefined, Str(<<>>), Str(<<tok>>)}}

MissingRequest ==
  [defined |-> FALSE,
   get |-> [query |-> Missing(ParamKeys), headers |-> Missing(HeaderKeys),
            body |-> Missing(ParamKeys)]]

Requests(authValues) ==
  {MissingRequest} \cup
  {Obj([query |-> q, headers |-> h, body |-> b]) :
     q \in ParamObjects("q"), h \in HeaderObjects(authValues),
     b \in ParamObjects("b")}

Configs ==
  {Missing(ConfigKeys)} \cup
  {Obj([k \in ConfigKeys |->
          IF k = "authorizationHeaderKey" THEN a ELSE c]) :
     a \in {Undefined, Str(<<"X-Auth">>)}, c \in {Undefined, Str(<<"X-Cookie">>)}}

---------------------------------------------------------------------------
(* State machine: a caller holding a request and a config calls the function *)

Init ==
  /\ request \in Requests(AuthValues)
  /\ config \in Configs
  /\ ret = NoResult
  /\ pc = "ready"

\* One call.  The function only reads its arguments: no statement of it
\* assigns to a property of query, headers, body or the config.
Extract ==
  /\ pc = "ready"
  /\ ret' = extractTokenFromRequest(request, config)
  /\ pc' = "done"
  /\ UNCHANGED <<request, config>>

Next == Extract

Spec == Init /\ [][Next]_vars

---------------------------------------------------------------------------
(* What the properties below speak of, read off the caller's arguments *)

Done == pc = "done"

NonEmpty(v) == v.t = "string" /\ Len(v.s) > 0

\* headers[k], undefined when the request or its headers are missing.
HeaderValue(k) == request.get["headers"].get[k]

BodyValue == request.get["body"].get["access_token"]

QueryValue == request.get["query"].get["access_token"]

\* The key the config names for an option, else the documented default.
ConfiguredKey(option, default) ==
  IF config.get[option].t = "string" THEN config.get[option].s[1] ELSE default

AuthValue == HeaderValue(ConfiguredKey("authorizationHeaderKey", "Authorization"))

CookieValue == HeaderValue(ConfiguredKey("cookieHeaderKey", "Cookie"))

\* The positions at which "Bearer " occurs in a string.
BearerAt(str) ==
  {i \in 1..(Len(str) - 1) : str[i] = "Bearer" /\ str[i + 1] = " "}

ContainsBearer(v) == v.t = "string" /\ BearerAt(v.s) # {}

FirstBearer(str) == CHOOSE i \in BearerAt(str) : \A j \in BearerAt(str) : i <= j

\* The position of the first space at or after position i, Len + 1 if none.
NextSpace(str, i) ==
  CHOOSE j \in i..(Len(str) + 1) :
    /\ j = Len(str) + 1 \/ str[j] = " "
    /\ \A m \in i..(j - 1) : str[m] # " "

\* The characters from position i up to the next space.
FieldFrom(str, i) == SubSeq(str, i, NextSpace(str, i) - 1)

\* The segment between the first and the second space.
SecondField(str) == FieldFrom(str, NextSpace(str, 1) + 1)

HeaderIsBearerToken ==
  /\ AuthValue.t = "string"
  /\ Len(AuthValue.s) >= 3
  /\ AuthValue.s[1] = "Bearer"
  /\ AuthValue.s[2] = " "
  /\ \A i \in 3..Len(AuthValue.s) : AuthValue.s[i] # " "

CookieToken ==
  IF NonEmpty(CookieValue) THEN parse(CookieValue.s)["access_token"] ELSE Undefined

\* No source yields a value.
NoSourceYields ==
  /\ ~ContainsBearer(AuthValue)
  /\ ~NonEmpty(BodyValue)
  /\ ~NonEmpty(QueryValue)
  /\ ~NonEmpty(CookieToken)

---------------------------------------------------------------------------
(* Properties *)

\* C1: a header "Bearer <tok>", tok non-empty and without spaces, makes the
\* call return tok, whatever the body, the query string and the cookie hold.
C1_HeaderPrecedence ==
  Done /\ HeaderIsBearerToken
    => ret = Return(Str(SubSeq(AuthValue.s, 3, Len(AuthValue.s))))

C1_Witness ==
  /\ Done /\ HeaderIsBearerToken
  /\ NonEmpty(BodyValue) /\ NonEmpty(QueryValue) /\ NonEmpty(CookieToken)
  /\ ret = Return(Str(<<"a">>))

\* C2: when the header is absent or does not contain "Bearer ", a truthy
\* body.access_token is returned verbatim whatever the query string and the
\* cookie hold, and query.access_token is returned when it is truthy and the
\* body's is not, and only then.
C2_BodyBeforeQuery ==
  Done /\ ~ContainsBearer(AuthValue)
    => /\ NonEmpty(BodyValue) => ret = Return(BodyValue)
       /\ ~NonEmpty(BodyValue) /\ NonEmpty(QueryValue) => ret = Return(QueryValue)
       /\ NonEmpty(QueryValue) /\ ret = Return(QueryValue) => ~NonEmpty(BodyValue)

C2_Witness ==
  /\ Done /\ NonEmpty(AuthValue) /\ ~ContainsBearer(AuthValue)
  /\ NonEmpty(BodyValue) /\ NonEmpty(QueryValue) /\ NonEmpty(CookieToken)
  /\ BodyValue # QueryValue
  /\ ret = Return(BodyValue)

\* C3: when header, body and query string yield nothing and the cookie header
\* holds an access_token entry, the call returns that entry's value; a cookie
\* value is returned in no other case.
C3_CookieExtraction ==
  /\ Done /\ ~ContainsBearer(AuthValue) /\ ~NonEmpty(BodyValue)
       /\ ~NonEmpty(QueryValue) /\ NonEmpty(CookieToken)
       => ret = Return(CookieToken)
  /\ Done /\ NonEmpty(CookieToken) /\ ret = Return(CookieToken)
       => ~ContainsBearer(AuthValue) /\ ~NonEmpty(BodyValue) /\ ~NonEmpty(QueryValue)

\* C4: when no source yields a value (a cookie header without access_token
\* included) the call returns null.
C4_AbsentResult == Done /\ NoSourceYields => ret = Return(Null)

\* C5: whenever the header branch is taken, the value returned is the segment
\* of the header between its first and its second space.
C5_SecondField ==
  Done /\ ContainsBearer(AuthValue) => ret = Return(Str(SecondField(AuthValue.s)))

C5_Witness ==
  /\ Done
  /\ AuthValue = Str(<<"Bearer", " ", "a", " ", "a">>)
  /\ ret = Return(Str(<<"a">>))

\* C6: every call completes without raising an error, and yields null when no
\* token is found.
C6_NoFailure ==
  Done => ret.kind = "return" /\ (NoSourceYields => ret.value = Null)

\* C7: the header check reads headers[K] for a configured key K and
\* headers.Authorization when the config or the key is missing, with the same
\* matching and parsing rule; the cookie header is read under "Cookie" when
\* the config or its cookie key is missing.
C7_HeaderRule(h) ==
  /\ ContainsBearer(h) => ret = Return(Str(SecondField(h.s)))
  /\ ~ContainsBearer(h) /\ NonEmpty(BodyValue) => ret = Return(BodyValue)
  /\ ~ContainsBearer(h) /\ ~NonEmpty(BodyValue) /\ NonEmpty(QueryValue)
       => ret = Return(QueryValue)

C7_CustomConfiguration ==
  Done =>
    /\ \A K \in HeaderKeys :
         config.defined /\ config.get["authorizationHeaderKey"] = Str(<<K>>)
           => C7_HeaderRule(HeaderValue(K))
    /\ ~config.defined \/ config.get["authorizationHeaderKey"] = Undefined
         => C7_HeaderRule(HeaderValue("Authorization"))
    /\ (~config.defined \/ config.get["cookieHeaderKey"] = Undefined)
         /\ ~ContainsBearer(AuthValue) /\ ~NonEmpty(BodyValue) /\ ~NonEmpty(QueryValue)
         => (ret = Return(Null) <=> ~NonEmpty(HeaderValue("Cookie")))

C7_Witness ==
  /\ Done
  /\ config.defined /\ config.get["authorizationHeaderKey"] = Str(<<"X-Auth">>)
  /\ HeaderValue("Authorization") = Str(<<"Bearer", " ", "z">>)
  /\ HeaderValue("X-Auth") = Str(<<"Bearer", " ", "a">>)
  /\ ret = Return(Str(<<"a">>))

\* C9 as stated: whenever the header contains "Bearer " anywhere, the value
\* returned is what follows an occurrence of "Bearer " up to the next space.
C9_FollowsBearerAnywhere ==
  Done /\ ContainsBearer(AuthValue)
    => \E i \in BearerAt(AuthValue.s) : ret = Return(Str(FieldFrom(AuthValue.s, i + 2)))

\* C9 amended: whenever the header contains "Bearer " and no space comes
\* before its first occurrence, the value returned is what follows that
\* occurrence up to the next space.
C9_FollowsBearerBeforeAnySpace ==
  Done /\ ContainsBearer(AuthValue)
       /\ (\A j \in 1..(FirstBearer(AuthValue.s) - 1) : AuthValue.s[j] # " ")
    => ret = Return(Str(FieldFrom(AuthValue.s, FirstBearer(AuthValue.s) + 2)))

C9_Witness ==
  /\ Done /\ ContainsBearer(AuthValue)
  /\ FirstBearer(AuthValue.s) > 1
  /\ \A j \in 1..(FirstBearer(AuthValue.s) - 1) : AuthValue.s[j] # " "
  /\ ret = Return(Str(<<"a">>))

\* C10: every value returned is null or a non-empty string.
C10_NullOrNonEmpty ==
  Done /\ ret.kind = "return" => ret.value = Null \/ NonEmpty(ret.value)

====
